---------------------------- MODULE Spec2Model ----------------------------
(***************************************************************************)
(* A model of the tiny compiler of src/index.ts: lex, the recursive        *)
(* descent parse with its shared cursor, evaluate and compile.             *)
(*                                                                         *)
(* A JavaScript string is a sequence of one-character strings; the value   *)
(* undefined is the constant Undefined.  A JavaScript number is a signed   *)
(* fraction [s, n, d]: d > 0 is a finite value (n = 0 is a signed zero),   *)
(* n # 0 with d = 0 is an infinity and n = d = 0 is NaN.  Arithmetic is    *)
(* exact where IEEE-754 doubles round; the signs of zeros and infinities   *)
(* and the NaN cases follow IEEE-754.                                      *)
(***************************************************************************)
EXTENDS Integers, Sequences, FiniteSets, TLC

VARIABLES program, tokens, count, stack, pc, ast, evalResult, compileResult

vars == <<program, tokens, count, stack, pc, ast, evalResult, compileResult>>

(***************************************************************************)
(* Bounds of the model.                                                    *)
(***************************************************************************)
\* the longest program built from whole words, in words
MaxTokens == 4
\* the longest program built character by character, in characters
MaxLen == 5

(***************************************************************************)
(* Strings.                                                                *)
(***************************************************************************)
Undefined == <<"<undefined>">>

\* the characters String.prototype.trim removes (those the model can write)
WhiteSpace == {" ", "\t", "\n", "\r", "\f"}

Digits == {"0", "1", "2", "3", "4", "5", "6", "7", "8", "9"}

DigitVal(c) ==
    CASE c = "0" -> 0 [] c = "1" -> 1 [] c = "2" -> 2 [] c = "3" -> 3
      [] c = "4" -> 4 [] c = "5" -> 5 [] c = "6" -> 6 [] c = "7" -> 7
      [] c = "8" -> 8 [] c = "9" -> 9
      [] c \in {"a", "A"} -> 10 [] c \in {"b", "B"} -> 11
      [] c \in {"c", "C"} -> 12 [] c \in {"d", "D"} -> 13
      [] c \in {"e", "E"} -> 14 [] c \in {"f", "F"} -> 15
      [] OTHER -> 99

DigitChar(k) ==
    CASE k = 0 -> "0" [] k = 1 -> "1" [] k = 2 -> "2" [] k = 3 -> "3"
      [] k = 4 -> "4" [] k = 5 -> "5" [] k = 6 -> "6" [] k = 7 -> "7"
      [] k = 8 -> "8" [] OTHER -> "9"

Tail0(s, k) == SubSeq(s, k + 1, Len(s))

(***************************************************************************)
(* lex: str.split(' ').map(s => s.trim()).filter(s => s.length > 0)        *)
(***************************************************************************)
RECURSIVE split(_, _)
split(str, sep) ==
    IF \A i \in 1..Len(str) : str[i] # sep
    THEN <<str>>
    ELSE LET i == CHOOSE j \in 1..Len(str) :
                      str[j] = sep /\ \A k \in 1..(j - 1) : str[k] # sep
         IN  <<SubSeq(str, 1, i - 1)>> \o split(Tail0(str, i), sep)

RECURSIVE trimStart(_)
trimStart(s) ==
    IF s # <<>> /\ s[1] \in WhiteSpace THEN trimStart(Tail(s)) ELSE s

RECURSIVE trimEnd(_)
trimEnd(s) ==
    IF s # <<>> /\ s[Len(s)] \in WhiteSpace
    THEN trimEnd(SubSeq(s, 1, Len(s) - 1))
    ELSE s

trim(s) == trimEnd(trimStart(s))

lexKeep(s) == Len(s) > 0

lex(str) ==
    SelectSeq([i \in 1..Len(split(str, " ")) |-> trim(split(str, " ")[i])],
              lexKeep)

(***************************************************************************)
(* Numbers.                                                                *)
(***************************************************************************)
RECURSIVE GCD(_, _)
GCD(a, b) == IF b = 0 THEN a ELSE GCD(b, a % b)

NaN == [s |-> 1, n |-> 0, d |-> 0]

MkNum(s, n, d) ==
    LET g == GCD(n, d)
    IN  IF g = 0 THEN NaN ELSE [s |-> s, n |-> n \div g, d |-> d \div g]

IntNum(k) == IF k < 0 THEN [s |-> -1, n |-> -k, d |-> 1]
                      ELSE [s |-> 1, n |-> k, d |-> 1]

IsNaN(x) == x.n = 0 /\ x.d = 0
IsInf(x) == x.n # 0 /\ x.d = 0
IsZero(x) == x.n = 0 /\ x.d # 0

Neg(x) == IF IsNaN(x) THEN NaN ELSE [x EXCEPT !.s = -x.s]

\* a + b
Add(a, b) ==
    IF IsNaN(a) \/ IsNaN(b) THEN NaN
    ELSE IF IsInf(a) /\ IsInf(b) THEN (IF a.s = b.s THEN a ELSE NaN)
    ELSE IF IsInf(a) THEN a
    ELSE IF IsInf(b) THEN b
    ELSE LET num == a.s * a.n * b.d + b.s * b.n * a.d
         IN  IF num = 0
             THEN [s |-> IF IsZero(a) /\ IsZero(b) /\ a.s = -1 /\ b.s = -1
                         THEN -1 ELSE 1,
                   n |-> 0, d |-> 1]
             ELSE IF num < 0 THEN MkNum(-1, -num, a.d * b.d)
                             ELSE MkNum(1, num, a.d * b.d)

\* a - b
Sub(a, b) == Add(a, Neg(b))

\* a * b
Mul(a, b) == MkNum(a.s * b.s, a.n * b.n, a.d * b.d)

\* a / b
Div(a, b) == MkNum(a.s * b.s, a.n * b.d, a.d * b.n)

(***************************************************************************)
(* Conversions between strings and numbers.                                *)
(***************************************************************************)
UndefinedStr == <<"u", "n", "d", "e", "f", "i", "n", "e", "d">>

\* ToString of a string or of undefined
ToStr(v) == IF v = Undefined THEN UndefinedStr ELSE v

\* the longest prefix of s made of digits of radix r
RECURSIVE digitPrefix(_, _)
digitPrefix(s, r) ==
    IF s # <<>> /\ DigitVal(s[1]) < r
    THEN <<s[1]>> \o digitPrefix(Tail(s), r)
    ELSE <<>>

RECURSIVE digitsValue(_, _)
digitsValue(z, r) ==
    IF z = <<>> THEN 0
    ELSE digitsValue(SubSeq(z, 1, Len(z) - 1), r) * r + DigitVal(z[Len(z)])

\* parseInt(v) with no radix argument
parseInt(v) ==
    LET S0   == trimStart(ToStr(v))
        sign == IF S0 # <<>> /\ S0[1] = "-" THEN -1 ELSE 1
        S1   == IF S0 # <<>> /\ S0[1] \in {"+", "-"} THEN Tail(S0) ELSE S0
        hex  == Len(S1) >= 2 /\ S1[1] = "0" /\ S1[2] \in {"x", "X"}
        R    == IF hex THEN 16 ELSE 10
        S2   == IF hex THEN Tail0(S1, 2) ELSE S1
        Z    == digitPrefix(S2, R)
    IN  IF Z = <<>> THEN NaN ELSE [s |-> sign, n |-> digitsValue(Z, R), d |-> 1]

RECURSIVE natToString(_)
natToString(k) ==
    IF k < 10 THEN <<DigitChar(k)>>
    ELSE natToString(k \div 10) \o <<DigitChar(k % 10)>>

\* Number::toString of NaN, an infinity or an integer (parseInt returns
\* nothing else, and only parseInt's values are ever converted)
numberToString(x) ==
    CASE IsNaN(x) -> <<"N", "a", "N">>
      [] IsInf(x) /\ x.s = 1 -> <<"I", "n", "f", "i", "n", "i", "t", "y">>
      [] IsInf(x) /\ x.s = -1 ->
            <<"-", "I", "n", "f", "i", "n", "i", "t", "y">>
      [] IsZero(x) -> <<"0">>
      [] x.d = 1 /\ x.n > 0 ->
            (IF x.s = -1 THEN <<"-">> ELSE <<>>) \o natToString(x.n)

(***************************************************************************)
(* The AST.                                                                *)
(***************************************************************************)
Op == "op"
Num == "num"

NoNode == [type |-> "none"]

NumberParser(v) == [type |-> Num, val |-> v]

OperationParser(v) == [type |-> Op, val |-> v, expression |-> <<>>]

SUM == <<"s", "u", "m">>
SUB == <<"s", "u", "b">>
DIV == <<"d", "i", "v">>
MUL == <<"m", "u", "l">>

(***************************************************************************)
(* The programs the model runs: the source's program, the scenarios of     *)
(* its documentation, every program of at most MaxTokens words separated   *)
(* by single spaces, and every string of at most MaxLen characters.        *)
(***************************************************************************)
Words ==
    { SUM, SUB, DIV, MUL, <<"0">>, <<"2">>, <<"1", "2">>,
      <<"1", "a">>, <<"a", "1">>, <<"f", "o", "o">> }

Alphabet == {" ", "\t", "1", "a"}

RECURSIVE joinWords(_)
joinWords(ws) ==
    IF ws = <<>> THEN <<>>
    ELSE IF Len(ws) = 1 THEN ws[1]
    ELSE ws[1] \o <<" ">> \o joinWords(Tail(ws))

Program0 ==
    joinWords(<<SUB, <<"2">>, SUM, <<"1">>, <<"3">>, <<"4">> >>)

Scenarios ==
    { Program0,
      joinWords(<<SUM, <<"1">>, <<"2">>, <<"3">> >>),
      joinWords(<<MUL, <<"2">>, <<"3">>, <<"4">> >>),
      joinWords(<<DIV, <<"4">>, <<"0">> >>),
      joinWords(<<DIV, <<"1">>, <<"2">>, <<"4">> >>),
      joinWords(<<SUB, <<"1">>, <<"2">>, <<"4">> >>) }

WordPrograms ==
    { joinWords(ws) : ws \in UNION { [1..n -> Words] : n \in 0..MaxTokens } }

CharPrograms == UNION { [1..n -> Alphabet] : n \in 0..MaxLen }

Programs == Scenarios \cup WordPrograms \cup CharPrograms

(***************************************************************************)
(* parse: the recursive descent, one step per call, test and return.       *)
(* stack holds the nodes of the parseOp calls in progress, innermost       *)
(* last; pc is "expr" at a call of parseExpression, "loop" at the test of  *)
(* parseOp's while, "parsed" once parse has returned.                      *)
(***************************************************************************)
NoResult == [t |-> "none"]

Init ==
    /\ program \in Programs
    /\ tokens = <<>>
    /\ count = 0
    /\ stack = <<>>
    /\ pc = "lex"
    /\ ast = NoNode
    /\ evalResult = NoResult
    /\ compileResult = NoResult

\* const tokens = lex(program)
Lex ==
    /\ pc = "lex"
    /\ tokens' = lex(program)
    /\ pc' = "parse"
    /\ UNCHANGED <<program, count, stack, ast, evalResult, compileResult>>

\* tokens[count]
peek == IF count < Len(tokens) THEN tokens[count + 1] ELSE Undefined

\* a cursor that skips a token: what consume is not
consumeTwo == count' = count + 2
\* the count++ of tokens[count++]; the value consumed is peek
consume == count' = count + 1

\* /\d/.test(v)
testDigit(v) == \E i \in 1..Len(ToStr(v)) : ToStr(v)[i] \in Digits

\* ToBoolean of a string or of undefined
Truthy(v) == v # Undefined /\ v # <<>>

\* a call returns node to its caller: parse's caller when no parseOp is in
\* progress, else the push onto the expression of the innermost parseOp
ReturnNode(node, callers) ==
    IF callers = <<>>
    THEN /\ ast' = node
         /\ stack' = <<>>
         /\ pc' = "parsed"
    ELSE /\ stack' = [callers EXCEPT ![Len(callers)].expression =
                                          Append(@, node)]
         /\ pc' = "loop"
         /\ UNCHANGED ast

\* parse(tokens): let count = 0; return parseExpression()
Parse ==
    /\ pc = "parse"
    /\ count' = 0
    /\ pc' = "expr"
    /\ UNCHANGED <<program, tokens, stack, ast, evalResult, compileResult>>

\* parseExpression takes the parseNum branch
parseNum ==
    /\ pc = "expr"
    /\ testDigit(peek)
    /\ consume
    /\ ReturnNode(NumberParser(parseInt(peek)), stack)
    /\ UNCHANGED <<program, tokens, evalResult, compileResult>>

\* parseExpression takes the parseOp branch: the node is created
parseOp ==
    /\ pc = "expr"
    /\ ~testDigit(peek)
    /\ consume
    /\ stack' = Append(stack, OperationParser(peek))
    /\ pc' = "loop"
    /\ UNCHANGED <<program, tokens, ast, evalResult, compileResult>>

\* while (peek()) holds: parseExpression is called for the next operand
parseOpLoop ==
    /\ pc = "loop"
    /\ Truthy(peek)
    /\ pc' = "expr"
    /\ UNCHANGED <<program, tokens, count, stack, ast, evalResult,
                   compileResult>>

\* while (peek()) fails: return node
parseOpReturn ==
    /\ pc = "loop"
    /\ ~Truthy(peek)
    /\ ReturnNode(stack[Len(stack)], SubSeq(stack, 1, Len(stack) - 1))
    /\ UNCHANGED <<program, tokens, count, evalResult, compileResult>>

(***************************************************************************)
(* evaluate.  A call returns a number, Returned(x), or throws, Thrown(e).  *)
(***************************************************************************)
Returned(x) == [t |-> "number", v |-> x]
ReturnedString(x) == [t |-> "string", v |-> x]
Thrown(e) == [t |-> "throw", v |-> e]

ReduceOfEmpty == "TypeError: Reduce of empty array with no initial value"
NotAFunction == "TypeError: operationMap[ast.val] is not a function"

\* the callbacks of the four reduce calls
callback(f, a, b) ==
    CASE f = "a + b" -> Add(a, b)
      [] f = "a - b" -> Sub(a, b)
      [] f = "a / b" -> Div(a, b)
      [] f = "a * b" -> Mul(a, b)

\* the loop of Array.prototype.reduce from index k with accumulator acc
RECURSIVE reduceFrom(_, _, _, _)
reduceFrom(f, args, k, acc) ==
    IF k > Len(args) THEN acc
    ELSE reduceFrom(f, args, k + 1, callback(f, acc, args[k]))

\* args.reduce(f, initialValue)
reduceWith(f, args, initialValue) ==
    Returned(reduceFrom(f, args, 1, initialValue))

\* args.reduce(f)
reduce(f, args) ==
    IF args = <<>> THEN Thrown(ReduceOfEmpty)
    ELSE Returned(reduceFrom(f, args, 2, args[1]))

evaluateSum(args) == reduceWith("a + b", args, IntNum(0))
\* sub as a fold from 0, as sum is: what evaluateSub is not
evaluateSubSeeded(args) == reduceWith("a - b", args, IntNum(0))
evaluateSub(args) == reduce("a - b", args)
\* div as a fold from 1, as mul is: what evaluateDiv is not
evaluateDivSeeded(args) == reduceWith("a / b", args, IntNum(1))
evaluateDiv(args) == reduce("a / b", args)
evaluateMul(args) == reduceWith("a * b", args, IntNum(1))

\* operationMap[key](args) of evaluate.  The keys the programs of the
\* model can name are the four own properties and names that are no
\* property at all; no token names a property inherited from
\* Object.prototype.
evaluateOperation(key, args) ==
    CASE key = SUM -> evaluateSum(args)
      [] key = SUB -> evaluateSub(args)
      [] key = DIV -> evaluateDiv(args)
      [] key = MUL -> evaluateMul(args)
      [] OTHER -> Thrown(NotAFunction)

\* the operands are evaluated, left to right, before the call is made: the
\* first operand that throws ends the evaluation
RECURSIVE evaluate(_)
evaluate(node) ==
    IF node.type = Num THEN Returned(node.val)
    ELSE LET rs == [i \in 1..Len(node.expression) |->
                        evaluate(node.expression[i])]
             thrown == {i \in 1..Len(rs) : rs[i].t = "throw"}
         IN  IF thrown # {}
             THEN rs[CHOOSE i \in thrown : \A j \in thrown : i <= j]
             ELSE evaluateOperation(node.val,
                                    [i \in 1..Len(rs) |-> rs[i].v])

(***************************************************************************)
(* compile.                                                                *)
(***************************************************************************)
\* operationMap[key] of compile
compileOperation(key) ==
    CASE key = SUM -> <<"+">>
      [] key = SUB -> <<"-">>
      [] key = DIV -> <<"/">>
      [] key = MUL -> <<"*">>
      [] OTHER -> Undefined

\* ToString of an element of the array join is called on
elementString(e) == IF e.t = "number" THEN numberToString(e.v) ELSE e.v

\* the loop of Array.prototype.join from index k with result R
RECURSIVE joinFrom(_, _, _, _)
joinFrom(elements, sep, k, R) ==
    IF k > Len(elements) THEN R
    ELSE joinFrom(elements, sep, k + 1,
                  (IF k > 1 THEN R \o sep ELSE R)
                      \o elementString(elements[k]))

join(elements, sep) == joinFrom(elements, sep, 1, <<>>)

\* the symbol without its two spaces: what separator is not
separatorBare(key) == ToStr(compileOperation(key))
\* ' ' + operationMap[ast.val] + ' '
separator(key) == <<" ">> \o ToStr(compileOperation(key)) \o <<" ">>

compileNum(node) == Returned(node.val)

RECURSIVE compileNode(_)
compileOp(node) ==
    ReturnedString(
        <<"(">>
        \o join([i \in 1..Len(node.expression) |->
                     compileNode(node.expression[i])],
                separator(node.val))
        \o <<")">>)

compileNode(node) ==
    IF node.type = Num THEN compileNum(node) ELSE compileOp(node)

compile(node) == compileNode(node)

(***************************************************************************)
(* The two consumers of the AST, in either order.                          *)
(***************************************************************************)
Evaluate ==
    /\ pc = "parsed"
    /\ evalResult = NoResult
    /\ evalResult' = evaluate(ast)
    /\ UNCHANGED <<program, tokens, count, stack, pc, ast, compileResult>>

Compile ==
    /\ pc = "parsed"
    /\ compileResult = NoResult
    /\ compileResult' = compile(ast)
    /\ UNCHANGED <<program, tokens, count, stack, pc, ast, evalResult>>

Next ==
    \/ Lex
    \/ Parse
    \/ parseNum
    \/ parseOp
    \/ parseOpLoop
    \/ parseOpReturn
    \/ Evaluate
    \/ Compile

Spec == Init /\ [][Next]_vars

(***************************************************************************)
(* Vocabulary of the properties.                                           *)
(***************************************************************************)
Parsed == pc = "parsed"
Evaluated == evalResult # NoResult
Compiled == compileResult # NoResult

\* the result r is the number x, the string str, the exception e
IsNumber(r, x) == r.t = "number" /\ r.v = x
IsString(r, str) == r.t = "string" /\ r.v = str
IsThrown(r, e) == r.t = "throw" /\ r.v = e

Keywords == {SUM, SUB, DIV, MUL}

\* the token matches ^[0-9]+$
AllDigits(tok) ==
    /\ tok # Undefined
    /\ tok # <<>>
    /\ \A i \in 1..Len(tok) : tok[i] \in Digits

\* the integer an all-digit token denotes
DecimalValue(tok) == IntNum(digitsValue(tok, 10))

Front(s) == SubSeq(s, 1, Len(s) - 1)
Last(s) == s[Len(s)]

RECURSIVE Flatten(_)
Flatten(ss) == IF ss = <<>> THEN <<>> ELSE ss[1] \o Flatten(Tail(ss))

RECURSIVE SumNat(_)
SumNat(ks) == IF ks = <<>> THEN 0 ELSE ks[1] + SumNat(Tail(ks))

\* every operation node of the tree carries one of the four keywords
RECURSIVE Recognized(_)
Recognized(node) ==
    \/ node.type = Num
    \/ /\ node.val \in Keywords
       /\ \A i \in 1..Len(node.expression) : Recognized(node.expression[i])

\* every operation node of the tree has at least one operand
RECURSIVE NonEmptyOps(_)
NonEmptyOps(node) ==
    \/ node.type = Num
    \/ /\ node.expression # <<>>
       /\ \A i \in 1..Len(node.expression) : NonEmptyOps(node.expression[i])

\* the nodes of the tree in pre-order, each as its kind and its value
RECURSIVE Preorder(_)
Preorder(node) ==
    IF node.type = Num THEN << [k |-> "num", v |-> node.val] >>
    ELSE << [k |-> "op", v |-> node.val] >>
         \o Flatten([i \in 1..Len(node.expression) |->
                         Preorder(node.expression[i])])

Leaves(node) == Cardinality({i \in 1..Len(Preorder(node)) :
                                Preorder(node)[i].k = "num"})
OpNodes(node) == Cardinality({i \in 1..Len(Preorder(node)) :
                                 Preorder(node)[i].k = "op"})

(***************************************************************************)
(* C1.                                                                     *)
(***************************************************************************)
\* left folds, by recursion on the last operand
RECURSIVE SumOf(_)
SumOf(xs) == IF xs = <<>> THEN IntNum(0) ELSE Add(SumOf(Front(xs)), Last(xs))

RECURSIVE ProductOf(_)
ProductOf(xs) ==
    IF xs = <<>> THEN IntNum(1) ELSE Mul(ProductOf(Front(xs)), Last(xs))

RECURSIVE DifferenceOf(_)
DifferenceOf(xs) ==
    IF Len(xs) = 1 THEN xs[1] ELSE Sub(DifferenceOf(Front(xs)), Last(xs))

RECURSIVE QuotientOf(_)
QuotientOf(xs) ==
    IF Len(xs) = 1 THEN xs[1] ELSE Div(QuotientOf(Front(xs)), Last(xs))

RECURSIVE Value(_)
Value(node) ==
    IF node.type = Num THEN node.val
    ELSE LET xs == [i \in 1..Len(node.expression) |->
                        Value(node.expression[i])]
         IN  CASE node.val = SUM -> SumOf(xs)
               [] node.val = SUB -> DifferenceOf(xs)
               [] node.val = DIV -> QuotientOf(xs)
               [] node.val = MUL -> ProductOf(xs)

ProgramSum123 == joinWords(<<SUM, <<"1">>, <<"2">>, <<"3">> >>)
ProgramMul234 == joinWords(<<MUL, <<"2">>, <<"3">>, <<"4">> >>)
ProgramDiv40 == joinWords(<<DIV, <<"4">>, <<"0">> >>)

\* C1: on a tree whose operation nodes carry sum, sub, div or mul and have
\* at least one operand, evaluate returns a number's value unchanged and
\* the left-to-right fold of an operation's evaluated operands (sum from
\* 0, mul from 1, sub and div from the first operand); "sub 2 sum 1 3 4"
\* evaluates to -6, "sum 1 2 3" to 6 and "mul 2 3 4" to 24.
C1_EvaluateFolds ==
    Evaluated =>
        /\ (Recognized(ast) /\ NonEmptyOps(ast))
               => IsNumber(evalResult, Value(ast))
        /\ program = Program0 => IsNumber(evalResult, IntNum(-6))
        /\ program = ProgramSum123 => IsNumber(evalResult, IntNum(6))
        /\ program = ProgramMul234 => IsNumber(evalResult, IntNum(24))

C1_Witness ==
    /\ Evaluated
    /\ program = Program0
    /\ ast.type = Op
    /\ Len(ast.expression) = 2
    /\ ast.expression[2].type = Op
    /\ IsNumber(evalResult, IntNum(-6))

(***************************************************************************)
(* C2.                                                                     *)
(***************************************************************************)
Symbol(key) ==
    CASE key = SUM -> "+" [] key = SUB -> "-" [] key = DIV -> "/"
      [] key = MUL -> "*"

\* strs joined by " sym ", by recursion on the last string
RECURSIVE Joined(_, _)
Joined(strs, sym) ==
    IF strs = <<>> THEN <<>>
    ELSE IF Len(strs) = 1 THEN strs[1]
    ELSE Joined(Front(strs), sym) \o <<" ", sym, " ">> \o Last(strs)

RECURSIVE Text(_)
Text(node) ==
    IF node.type = Num THEN numberToString(node.val)
    ELSE <<"(">>
         \o Joined([i \in 1..Len(node.expression) |->
                        Text(node.expression[i])],
                   Symbol(node.val))
         \o <<")">>

\* the number of parentheses open before position i of str
Depth(str, i) ==
    Cardinality({j \in 1..(i - 1) : str[j] = "("})
        - Cardinality({j \in 1..(i - 1) : str[j] = ")"})

\* the occurrences of " sym " in str inside the outermost parentheses only
TopSymbols(str, sym) ==
    Cardinality({i \in 2..(Len(str) - 1) :
                    /\ str[i] = sym
                    /\ str[i - 1] = " "
                    /\ str[i + 1] = " "
                    /\ Depth(str, i) = 1})

Text0 ==
    << "(", "2", " ", "-", " ", "(", "1", " ", "+", " ", "3", " ", "+", " ",
       "4", ")", ")" >>

\* C2: on a tree with recognized operators, compile of an operation node is
\* "(" + the compiled operands, in order, joined by " <symbol> " + ")": n
\* operands give n-1 symbols, one operand gives "(x)", none gives "()",
\* nested operations nest; "sub 2 sum 1 3 4" compiles to
\* "(2 - (1 + 3 + 4))".
C2_CompileJoins ==
    Compiled =>
        /\ (Recognized(ast) /\ ast.type = Op) =>
              /\ compileResult.t = "string"
              /\ compileResult.v = Text(ast)
              /\ TopSymbols(compileResult.v, Symbol(ast.val))
                    = (IF ast.expression = <<>> THEN 0
                       ELSE Len(ast.expression) - 1)
              /\ ast.expression = <<>> => compileResult.v = <<"(", ")">>
        /\ program = Program0 =>
              IsString(compileResult, Text0)

C2_Witness ==
    /\ Compiled
    /\ program = Program0
    /\ ast.type = Op
    /\ ast.expression[2].type = Op
    /\ IsString(compileResult, Text0)

(***************************************************************************)
(* C3.                                                                     *)
(***************************************************************************)
TextDiv40 == <<"(", "4", " ", "/", " ", "0", ")">>

\* the operands of node all evaluate to numbers and one after the first
\* evaluates to a zero
ZeroDivisor(node) ==
    /\ \A i \in 1..Len(node.expression) :
          evaluate(node.expression[i]).t = "number"
    /\ \E i \in 2..Len(node.expression) :
          IsZero(evaluate(node.expression[i]).v)

\* C3: evaluate of a div operation signals a division-by-zero failure, not
\* a numeric result, whenever an operand value after the first is zero (so
\* for "div 4 0"), while compile of "div 4 0" returns "(4 / 0)".
C3_DivisionByZeroFails ==
    /\ (Evaluated /\ ast.type = Op /\ ast.val = DIV /\ ZeroDivisor(ast))
           => evalResult.t = "throw"
    /\ (Compiled /\ program = ProgramDiv40)
           => IsString(compileResult, TextDiv40)

(***************************************************************************)
(* C4.                                                                     *)
(***************************************************************************)
\* no operation node of the tree has undefined as its operator
RECURSIVE DefinedOps(_)
DefinedOps(node) ==
    \/ node.type = Num
    \/ /\ node.val # Undefined
       /\ \A i \in 1..Len(node.expression) : DefinedOps(node.expression[i])

\* C4: parse fails whenever a number or an operator keyword is expected
\* with the cursor past the last token, so it returns no node made from a
\* missing token and no node at all for the empty token sequence.
C4_ParseFailsAtEnd ==
    Parsed => (tokens # <<>> /\ DefinedOps(ast))

(***************************************************************************)
(* C5.                                                                     *)
(***************************************************************************)
\* C5: on a tree with an operation node whose operator is a string that is
\* none of sum, sub, div, mul, compile signals a failure and returns no
\* string, as evaluate signals a failure.
C5_UnknownOperatorFails ==
    /\ (Compiled /\ DefinedOps(ast) /\ ~Recognized(ast))
           => compileResult.t = "throw"
    /\ (Evaluated /\ DefinedOps(ast) /\ ~Recognized(ast))
           => evalResult.t = "throw"

C7_NumbersFromDigitTokens ==
    Parsed =>
        \A i \in 1..Len(Preorder(ast)) :
            i <= Len(tokens) =>
                /\ Preorder(ast)[i].k = "num" <=> AllDigits(tokens[i])
                /\ Preorder(ast)[i].k = "num" =>
                       Preorder(ast)[i].v = DecimalValue(tokens[i])

(***************************************************************************)
(* C8.                                                                     *)
(***************************************************************************)
\* the maximal runs of non-whitespace characters of str, in order
RECURSIVE Runs(_, _)
Runs(str, run) ==
    IF str = <<>> THEN (IF run = <<>> THEN <<>> ELSE <<run>>)
    ELSE IF str[1] \in WhiteSpace
         THEN (IF run = <<>> THEN <<>> ELSE <<run>>) \o Runs(Tail(str), <<>>)
         ELSE Runs(Tail(str), Append(run, str[1]))

\* C8: lex returns, in order, exactly the maximal runs of non-whitespace
\* characters of its input: each token is non-empty and holds no space,
\* tab or newline, and a blank input gives no token.
C8_LexSplitsOnWhitespace ==
    pc # "lex" =>
        /\ tokens = Runs(program, <<>>)
        /\ \A i \in 1..Len(tokens) :
              /\ tokens[i] # <<>>
              /\ \A j \in 1..Len(tokens[i]) : tokens[i][j] \notin WhiteSpace

(***************************************************************************)
(* C9.                                                                     *)
(***************************************************************************)
\* the grammar: expr := num | op expr+
RECURSIVE IsExpr(_)
RECURSIVE IsExprs(_)
IsExpr(ts) ==
    \/ Len(ts) = 1 /\ AllDigits(ts[1])
    \/ Len(ts) >= 2 /\ ts[1] \in Keywords /\ IsExprs(Tail(ts))

IsExprs(ts) ==
    \E k \in 1..Len(ts) :
        /\ IsExpr(SubSeq(ts, 1, k))
        /\ k = Len(ts) \/ IsExprs(SubSeq(ts, k + 1, Len(ts)))

\* the node each token is to become
TokenNode(tok) ==
    IF AllDigits(tok) THEN [k |-> "num", v |-> DecimalValue(tok)]
    ELSE [k |-> "op", v |-> tok]

\* C9: for a token sequence that is a valid prefix expression, the tree
\* parse returns has as many number leaves as there are numeric tokens and
\* as many operation nodes as there are keyword tokens, under one root: its
\* nodes in pre-order are the tokens in order, none dropped or duplicated.
C9_OneNodePerToken ==
    (Parsed /\ IsExpr(tokens)) =>
        /\ Leaves(ast) =
              Cardinality({i \in 1..Len(tokens) : AllDigits(tokens[i])})
        /\ OpNodes(ast) =
              Cardinality({i \in 1..Len(tokens) : tokens[i] \in Keywords})
        /\ Len(Preorder(ast)) = Len(tokens)
        /\ \A i \in 1..Len(tokens) :
              /\ Preorder(ast)[i].k = TokenNode(tokens[i]).k
              /\ Preorder(ast)[i].v = TokenNode(tokens[i]).v
        /\ stack = <<>>

C9_Witness ==
    /\ Parsed
    /\ IsExpr(tokens)
    /\ Len(tokens) >= 4
    /\ OpNodes(ast) >= 2
    /\ Leaves(ast) >= 2

(***************************************************************************)
(* C10.                                                                    *)
(***************************************************************************)
\* the nodes of a tree
NodeCount(node) == Len(Preorder(node))

\* an operation node among the operands of a node is its last operand
RECURSIVE OperationsLast(_)
OperationsLast(node) ==
    \/ node.type = Num
    \/ \A i \in 1..Len(node.expression) :
          /\ node.expression[i].type = Op => i = Len(node.expression)
          /\ OperationsLast(node.expression[i])

\* C10: the cursor only ever increases, by one per consume (so it counts
\* the nodes built so far); a parseOp call returns only with the cursor at
\* or past the end of the tokens, so an operation node among the operands
\* of a node is the last one; and tokens are left unconsumed only when the
\* first token is numeric, the root then being that number's node.
C10_GreedyCursor ==
    /\ count = SumNat([i \in 1..Len(stack) |-> NodeCount(stack[i])])
                  + (IF Parsed THEN NodeCount(ast) ELSE 0)
    /\ (pc = "loop" /\ ~Truthy(peek)) => count >= Len(tokens)
    /\ Parsed => OperationsLast(ast)
    /\ (Parsed /\ count < Len(tokens)) =>
          /\ AllDigits(tokens[1])
          /\ ast = NumberParser(DecimalValue(tokens[1]))

=============================================================================
